---------------------------- MODULE Spec2Model ----------------------------
(***************************************************************************)
(* Model of the rule-based question detector of src/AIQuestionDetector.py. *)
(* A text is a sequence of one-character strings.  The Python string and   *)
(* regular-expression primitives the detector uses are modelled character  *)
(* by character, and the three methods of QuestionDetector are translated  *)
(* statement by statement.                                                 *)
(***************************************************************************)
EXTENDS Naturals, Sequences, FiniteSets

VARIABLES detector,     \* the QuestionDetector instance: its rule tables
          check_order,  \* order of the four checks in the body of is_question
          input,        \* the text handed to the detector
          utterances,   \* number of utterances handed to the detector so far
          op,           \* last method called on input ("none" before any)
          ret,          \* outcome of the last call: [exc, value]
          window,       \* the MainWindow: is_listening, current_question, current_answer
          query,        \* argument of the get_answer call the last step made, if any
          callers       \* the concurrent callers of the detector, each mid-call

vars == <<detector, check_order, input, utterances, op, ret, window, query, callers>>

\* The state outside the detector and its single caller.
app == <<window, query, callers>>

-----------------------------------------------------------------------------
(* Characters and Python's str primitives                                  *)

\* Characters for which str.isspace() holds and that \s matches.
Whitespace == {" ", "\t", "\n", "\r", "\f"}

UpperCase == <<"A","B","C","D","E","F","G","H","I","J","K","L","M",
               "N","O","P","Q","R","S","T","U","V","W","X","Y","Z">>

LowerCase == <<"a","b","c","d","e","f","g","h","i","j","k","l","m",
               "n","o","p","q","r","s","t","u","v","w","x","y","z">>

LowerOf == [c \in {UpperCase[i] : i \in DOMAIN UpperCase} |->
              LowerCase[CHOOSE i \in DOMAIN UpperCase : UpperCase[i] = c]]

Letters == {UpperCase[i] : i \in DOMAIN UpperCase} \cup
           {LowerCase[i] : i \in DOMAIN LowerCase}

\* One character of str.lower().
LowerChar(c) == IF c \in DOMAIN LowerOf THEN LowerOf[c] ELSE c

\* str.lower()
lower(s) == [i \in 1..Len(s) |-> LowerChar(s[i])]

\* Length of the longest run of s that starts at position i and is made of
\* characters that are in cls (inside = TRUE) or not in cls (inside = FALSE).
RECURSIVE RunFrom(_, _, _, _)
RunFrom(s, i, cls, inside) ==
  IF i > Len(s) \/ ((s[i] \in cls) # inside) THEN 0
  ELSE 1 + RunFrom(s, i + 1, cls, inside)

RunLength(s, cls, inside) == RunFrom(s, 1, cls, inside)

\* Length of the longest run of characters of cls that ends at position i.
RECURSIVE RunBefore(_, _, _)
RunBefore(s, i, cls) ==
  IF i < 1 \/ s[i] \notin cls THEN 0
  ELSE 1 + RunBefore(s, i - 1, cls)

\* str.strip(): drop leading and trailing whitespace.
strip(s) ==
  LET lead == RunLength(s, Whitespace, TRUE)
  IN  IF lead = Len(s) THEN <<>>
      ELSE SubSeq(s, lead + 1, Len(s) - RunBefore(s, Len(s), Whitespace))

\* str.startswith(prefix)
startswith(s, prefix) ==
  /\ Len(prefix) <= Len(s)
  /\ SubSeq(s, 1, Len(prefix)) = prefix

\* str.endswith(suffix)
endswith(s, suffix) ==
  /\ Len(suffix) <= Len(s)
  /\ SubSeq(s, Len(s) - Len(suffix) + 1, Len(s)) = suffix

\* str.split() without argument: the maximal runs of non-whitespace.
RECURSIVE split(_)
split(s) ==
  LET t == SubSeq(s, RunLength(s, Whitespace, TRUE) + 1, Len(s))
      n == RunLength(t, Whitespace, FALSE)
  IN  IF t = <<>> THEN <<>>
      ELSE <<SubSeq(t, 1, n)>> \o split(SubSeq(t, n + 1, Len(t)))

-----------------------------------------------------------------------------
(* Regular expressions (module re)                                         *)
(* A pattern is a sequence of elements:                                    *)
(*   [k |-> "bol"]                     ^                                   *)
(*   [k |-> "eol"]                     $                                   *)
(*   [k |-> "alt", words |-> seq]      (w1|w2|...) or a literal            *)
(*   [k |-> "rep", cls, min]           \s+  .*  \?*                        *)

Bol == [k |-> "bol"]
Eol == [k |-> "eol"]
Alt(ws) == [k |-> "alt", words |-> ws]
Plus(c) == [k |-> "rep", cls |-> c, min |-> 1]
Star(c) == [k |-> "rep", cls |-> c, min |-> 0]

\* Character classes: \s, . (anything but a newline), and the literal ?
InClass(cls, c) ==
  CASE cls = "space" -> c \in Whitespace
    [] cls = "dot"   -> c # "\n"
    [] cls = "qmark" -> c = "?"

\* Whether elements i.. of the compiled pattern cp match text from position
\* pos on (backtracking over every alternative and repetition count).
RECURSIVE re_match(_, _, _, _)
re_match(cp, i, text, pos) ==
  IF i > Len(cp.pattern) THEN TRUE
  ELSE
    LET e == cp.pattern[i]
        same(a, b) == IF cp.ignorecase THEN LowerChar(a) = LowerChar(b) ELSE a = b
    IN  CASE e.k = "bol" -> pos = 1 /\ re_match(cp, i + 1, text, pos)
          [] e.k = "eol" ->
               /\ \/ pos = Len(text) + 1
                  \/ pos = Len(text) /\ text[pos] = "\n"
               /\ re_match(cp, i + 1, text, pos)
          [] e.k = "alt" ->
               \E j \in 1..Len(e.words) :
                 LET w == e.words[j]
                 IN  /\ pos + Len(w) - 1 <= Len(text)
                     /\ \A m \in 1..Len(w) : same(text[pos + m - 1], w[m])
                     /\ re_match(cp, i + 1, text, pos + Len(w))
          [] e.k = "rep" ->
               \E n \in e.min..(Len(text) - pos + 1) :
                 /\ \A m \in 0..(n - 1) : InClass(e.cls, text[pos + m])
                 /\ re_match(cp, i + 1, text, pos + n)

\* re.compile(pattern, re.IGNORECASE)
re_compile(pattern, flag) == [pattern |-> pattern, ignorecase |-> flag]

\* Variant: Pattern.match in place of Pattern.search (a match at the start only).
search_only_at_start(cp, text) == re_match(cp, 1, text, 1)

\* Pattern.search(text): a match starting at some position.
search(cp, text) == \E pos \in 1..(Len(text) + 1) : re_match(cp, 1, text, pos)

\* Variant: the question mark does not end a sentence.
Delimiters_without_question_mark == {".", "!"}

\* Variant: the exclamation mark does not end a sentence.
Delimiters_without_exclamation == {".", "?"}

\* re.split(r'[.!?]+', text): the pieces between maximal runs of delimiters,
\* empty pieces at either end included.
Delimiters == {".", "!", "?"}

RECURSIVE re_split(_)
re_split(text) ==
  LET n == RunLength(text, Delimiters, FALSE)
      rest == SubSeq(text, n + 1, Len(text))
  IN  IF n = Len(text) THEN <<text>>
      ELSE <<SubSeq(text, 1, n)>> \o
           re_split(SubSeq(rest, RunLength(rest, Delimiters, TRUE) + 1, Len(rest)))

-----------------------------------------------------------------------------
\* The string literals of the source, spelled as character sequences.
Lit == [
  what |-> <<"w","h","a","t">>,
  when |-> <<"w","h","e","n">>,
  where |-> <<"w","h","e","r","e">>,
  who |-> <<"w","h","o">>,
  whom |-> <<"w","h","o","m">>,
  whose |-> <<"w","h","o","s","e">>,
  which |-> <<"w","h","i","c","h">>,
  why |-> <<"w","h","y">>,
  how |-> <<"h","o","w">>,
  is |-> <<"i","s">>,
  are |-> <<"a","r","e">>,
  was |-> <<"w","a","s">>,
  were |-> <<"w","e","r","e">>,
  do |-> <<"d","o">>,
  does |-> <<"d","o","e","s">>,
  did |-> <<"d","i","d">>,
  can |-> <<"c","a","n">>,
  could |-> <<"c","o","u","l","d">>,
  will |-> <<"w","i","l","l">>,
  would |-> <<"w","o","u","l","d">>,
  should |-> <<"s","h","o","u","l","d">>,
  shall |-> <<"s","h","a","l","l">>,
  may |-> <<"m","a","y">>,
  might |-> <<"m","i","g","h","t">>,
  must |-> <<"m","u","s","t">>,
  am |-> <<"a","m">>,
  has |-> <<"h","a","s">>,
  have |-> <<"h","a","v","e">>,
  had |-> <<"h","a","d">>,
  tell_me |-> <<"t","e","l","l"," ","m","e">>,
  explain |-> <<"e","x","p","l","a","i","n">>,
  describe |-> <<"d","e","s","c","r","i","b","e">>,
  define |-> <<"d","e","f","i","n","e">>,
  calculate |-> <<"c","a","l","c","u","l","a","t","e">>,
  solve |-> <<"s","o","l","v","e">>,
  compute |-> <<"c","o","m","p","u","t","e">>,
  yes_no |-> <<"y","e","s","/","n","o">>,
  explanation |-> <<"e","x","p","l","a","n","a","t","i","o","n">>,
  calculation |-> <<"c","a","l","c","u","l","a","t","i","o","n">>,
  other |-> <<"o","t","h","e","r">>,
  qmark |-> <<"?">>
]

-----------------------------------------------------------------------------
(* class QuestionDetector                                                  *)

\* Variant: the modal and perfect auxiliaries are not question words.
question_words_without_modals == {
  Lit.what, Lit.when, Lit.where, Lit.who, Lit.whom, Lit.whose, Lit.which,
  Lit.why, Lit.how,
  Lit.is, Lit.are, Lit.was, Lit.were, Lit.do, Lit.does, Lit.did, Lit.can,
  Lit.could, Lit.will, Lit.would, Lit.am }

\* self.question_words
question_words == {
  Lit.what, Lit.when, Lit.where, Lit.who, Lit.whom, Lit.whose, Lit.which,
  Lit.why, Lit.how,
  Lit.is, Lit.are, Lit.was, Lit.were, Lit.do, Lit.does, Lit.did, Lit.can,
  Lit.could, Lit.will, Lit.would, Lit.should, Lit.shall, Lit.may, Lit.might,
  Lit.must, Lit.am, Lit.has, Lit.have, Lit.had }

\* self.question_patterns, in list order
question_patterns == <<
  \* \?$
  <<Alt(<<Lit.qmark>>), Eol>>,
  \* ^(what|when|where|who|whom|whose|which|why|how)\s+
  <<Bol, Alt(<<Lit.what, Lit.when, Lit.where, Lit.who, Lit.whom, Lit.whose,
               Lit.which, Lit.why, Lit.how>>), Plus("space")>>,
  \* ^(is|are|was|were|do|does|did|can|could|will|would|should)\s+
  <<Bol, Alt(<<Lit.is, Lit.are, Lit.was, Lit.were, Lit.do, Lit.does, Lit.did,
               Lit.can, Lit.could, Lit.will, Lit.would, Lit.should>>),
    Plus("space")>>,
  \* ^(tell me|explain|describe|define|calculate|solve)\s+
  <<Bol, Alt(<<Lit.tell_me, Lit.explain, Lit.describe, Lit.define,
               Lit.calculate, Lit.solve>>), Plus("space")>>,
  \* (what|how|why|when|where)\s+.*\?*$
  <<Alt(<<Lit.what, Lit.how, Lit.why, Lit.when, Lit.where>>), Plus("space"),
    Star("dot"), Star("qmark"), Eol>> >>

\* The set literal of is_question's inverted-structure check.
inverted_starters == {
  Lit.is, Lit.are, Lit.was, Lit.were, Lit.do, Lit.does, Lit.did,
  Lit.can, Lit.could, Lit.will, Lit.would, Lit.should, Lit.shall,
  Lit.may, Lit.might, Lit.must, Lit.have, Lit.has, Lit.had }

\* yes_no_starters of get_question_type
yes_no_starters == {
  Lit.is, Lit.are, Lit.was, Lit.were, Lit.do, Lit.does, Lit.did,
  Lit.can, Lit.could, Lit.will, Lit.would, Lit.should, Lit.shall,
  Lit.may, Lit.might, Lit.must, Lit.have, Lit.has, Lit.had }

\* QuestionDetector(): the instance __init__ builds, given the pattern list.
NewDetector(patterns) ==
  [question_words    |-> question_words,
   question_patterns |-> patterns,
   compiled_patterns |-> [i \in 1..Len(patterns) |-> re_compile(patterns[i], TRUE)]]

QuestionDetector == NewDetector(question_patterns)

\* Outcome of a call: a returned value, or an exception raised.
Return(v)   == [exc |-> "None", value |-> v]
Raise(e, v) == [exc |-> e, value |-> v]

\* The four checks of is_question after the length guard, numbered in source
\* order.  Each yields "True" (return True), "pass" (fall through to the next
\* statement) or the name of the exception it raises.

\* if text.endswith('?'): return True
check_question_mark(text) ==
  IF endswith(text, Lit.qmark) THEN "True" ELSE "pass"

\* for pattern in self.compiled_patterns: if pattern.search(text): return True
RECURSIVE check_patterns(_, _, _)
check_patterns(cps, i, text) ==
  IF i > Len(cps) THEN "pass"
  ELSE IF search(cps[i], text) THEN "True"
  ELSE check_patterns(cps, i + 1, text)

\* Variant: the first word is looked up without .lower().
check_first_word_no_lower(self, text) ==
  IF split(text) = <<>> THEN "IndexError"
  ELSE IF split(text)[1] \in self.question_words THEN "True"
  ELSE "pass"

\* Variant: an else branch that returns False when the first word is unknown.
check_first_word_returns_false(self, text) ==
  IF split(text) = <<>> THEN "IndexError"
  ELSE IF lower(split(text)[1]) \in self.question_words THEN "True"
  ELSE "False"

\* first_word = text.split()[0].lower(); if first_word in self.question_words
check_first_word(self, text) ==
  IF split(text) = <<>> THEN "IndexError"
  ELSE IF lower(split(text)[1]) \in self.question_words THEN "True"
  ELSE "pass"

\* words = text.lower().split(); if len(words) >= 2: if words[0] in {...}
check_inverted(text) ==
  LET words == split(lower(text))
  IN  IF Len(words) >= 2 /\ words[1] \in inverted_starters THEN "True"
      ELSE "pass"

check(self, n, text) ==
  CASE n = 1 -> check_question_mark(text)
    [] n = 2 -> check_patterns(self.compiled_patterns, 1, text)
    [] n = 3 -> check_first_word(self, text)
    [] n = 4 -> check_inverted(text)

\* The statements after the guard, run in the given order; return False at
\* the end of the body.
RECURSIVE run_checks(_, _, _, _)
run_checks(self, order, i, text) ==
  IF i > Len(order) THEN "False"
  ELSE LET r == check(self, order[i], text)
       IN  IF r = "pass" THEN run_checks(self, order, i + 1, text) ELSE r

\* The order of the checks in the source.
SourceOrder == <<1, 2, 3, 4>>

\* Variant: the guard measures the untrimmed text.
too_short_unstripped(text) == text = <<>> \/ Len(text) < 3

\* Variant: the guard is off by one.
too_short_off_by_one(text) == text = <<>> \/ Len(strip(text)) <= 3

\* Variant: the guard tests emptiness only.
too_short_only_empty(text) == text = <<>>

\* if not text or len(text.strip()) < 3: return False
too_short(text) == text = <<>> \/ Len(strip(text)) < 3

\* is_question with its checks in a given order.
is_question_ordered(self, order, text) ==
  IF too_short(text) THEN Return(FALSE)
  ELSE LET r == run_checks(self, order, 1, strip(text))
       IN  CASE r = "True"  -> Return(TRUE)
             [] r = "False" -> Return(FALSE)
             [] OTHER       -> Raise(r, FALSE)

\* QuestionDetector.is_question
is_question(self, text) == is_question_ordered(self, SourceOrder, text)

\* Variant: the question mark is not added back.
with_question_mark_never(sentence) == sentence

\* if not sentence.endswith('?'): sentence += '?'
with_question_mark(sentence) ==
  IF ~endswith(sentence, Lit.qmark) THEN sentence \o Lit.qmark ELSE sentence

\* The loop of extract_questions over sentences[i..], questions being the
\* list built so far.
RECURSIVE extract_loop(_, _, _, _)
extract_loop(self, sentences, i, questions) ==
  IF i > Len(sentences) THEN Return(questions)
  ELSE
    LET sentence == strip(sentences[i])
    IN  IF sentence = <<>> THEN extract_loop(self, sentences, i + 1, questions)
        ELSE
          LET q == is_question(self, sentence)
          IN  IF q.exc # "None" THEN Raise(q.exc, <<>>)
              ELSE IF ~q.value
                THEN extract_loop(self, sentences, i + 1, questions)
              ELSE extract_loop(self, sentences, i + 1,
                                Append(questions, with_question_mark(sentence)))

\* QuestionDetector.extract_questions
extract_questions(self, text) == extract_loop(self, re_split(text), 1, <<>>)

\* Variant: the longer words 'whom' and 'whose' are tested before 'who'.
q_words_longest_first ==
  <<Lit.what, Lit.when, Lit.where, Lit.whom, Lit.whose, Lit.who,
    Lit.which, Lit.why, Lit.how>>

\* for q_word in [...]: if question_lower.startswith(q_word): return q_word
q_words == <<Lit.what, Lit.when, Lit.where, Lit.who, Lit.whom, Lit.whose,
             Lit.which, Lit.why, Lit.how>>

RECURSIVE q_word_loop(_, _)
q_word_loop(question_lower, i) ==
  IF i > Len(q_words) THEN <<>>
  ELSE IF startswith(question_lower, q_words[i]) THEN q_words[i]
  ELSE q_word_loop(question_lower, i + 1)

\* Variant: 'have' opens an explanation command.
explanation_cmds_with_have ==
  <<Lit.tell_me, Lit.explain, Lit.describe, Lit.define, Lit.have>>

explanation_cmds == <<Lit.tell_me, Lit.explain, Lit.describe, Lit.define>>

calculation_cmds == <<Lit.calculate, Lit.solve, Lit.compute>>

\* any(question_lower.startswith(cmd) for cmd in cmds)
any_startswith(question_lower, cmds) ==
  \E i \in 1..Len(cmds) : startswith(question_lower, cmds[i])

\* Variant: question_lower.split()[0] without the conditional.
first_word_unguarded(question_lower) ==
  IF split(question_lower) # <<>> THEN Return(split(question_lower)[1])
  ELSE Raise("IndexError", <<>>)

\* question_lower.split()[0] if question_lower.split() else ''
first_word_or_empty(question_lower) ==
  IF split(question_lower) # <<>> THEN Return(split(question_lower)[1])
  ELSE Return(<<>>)

\* Variant: the question is trimmed but not lowercased.
lower_strip_unlowered(question) == strip(question)

\* question_lower = question.lower().strip()
lower_strip(question) == strip(lower(question))

\* QuestionDetector.get_question_type
get_question_type(self, question) ==
  LET question_lower == lower_strip(question)
      q_word == q_word_loop(question_lower, 1)
      first_word == first_word_or_empty(question_lower)
  IN  IF q_word # <<>> THEN Return(q_word)
      ELSE IF first_word.exc # "None" THEN Raise(first_word.exc, <<>>)
      ELSE IF first_word.value \in yes_no_starters THEN Return(Lit.yes_no)
      ELSE IF any_startswith(question_lower, explanation_cmds)
        THEN Return(Lit.explanation)
      ELSE IF any_startswith(question_lower, calculation_cmds)
        THEN Return(Lit.calculation)
      ELSE Return(Lit.other)

\* The four groups of conditions of get_question_type, each giving its
\* category or the empty string when its condition fails.
type_group(n, question_lower) ==
  CASE n = 1 -> q_word_loop(question_lower, 1)
    [] n = 2 -> IF first_word_or_empty(question_lower).value \in yes_no_starters
                  THEN Lit.yes_no ELSE <<>>
    [] n = 3 -> IF any_startswith(question_lower, explanation_cmds)
                  THEN Lit.explanation ELSE <<>>
    [] n = 4 -> IF any_startswith(question_lower, calculation_cmds)
                  THEN Lit.calculation ELSE <<>>

\* The groups evaluated in the given order; 'other' when none applies.
RECURSIVE run_type_groups(_, _, _)
run_type_groups(order, i, question_lower) ==
  IF i > Len(order) THEN Lit.other
  ELSE LET r == type_group(order[i], question_lower)
       IN  IF r # <<>> THEN r ELSE run_type_groups(order, i + 1, question_lower)

\* get_question_type with its groups in a given order.
get_question_type_ordered(self, order, question) ==
  Return(run_type_groups(order, 1, lower_strip(question)))

-----------------------------------------------------------------------------
(* Inputs                                                                  *)

\* The example utterances quoted by the specification.
Example == [
  sky |->
    <<"T","h","e"," ","s","k","y"," ","i","s"," ","b","l","u","e">>,
  time |->
    <<"W","h","a","t"," ","t","i","m","e"," ","i","s"," ","i","t">>,
  inverted |->
    <<"I","s"," ","t","h","e"," ","s","k","y"," ","b","l","u","e">>,
  works |->
    <<"I"," ","k","n","o","w"," ","h","o","w"," ","i","t"," ","w","o","r","k","s",".">>,
  passage |->
    <<"T","h","e"," ","s","u","n"," ","i","s"," ","h","o","t","."," ","W","h","a","t"," ","i","s"," ","i","t","s"," ","t","e","m","p","e","r","a","t","u","r","e","."," ","T","e","l","l"," ","m","e"," ","m","o","r","e",".">>,
  how_should |->
    <<"H","o","w"," ","s","h","o","u","l","d"," ","I"," ","p","r","o","c","e","e","d">>,
  photosynthesis |->
    <<"H","o","w"," ","d","o","e","s"," ","p","h","o","t","o","s","y","n","t","h","e","s","i","s"," ","w","o","r","k","?">>,
  wet |->
    <<"I","s"," ","w","a","t","e","r"," ","w","e","t","?">>,
  gravity |->
    <<"T","e","l","l"," ","m","e"," ","a","b","o","u","t"," ","g","r","a","v","i","t","y">>,
  circle |->
    <<"C","a","l","c","u","l","a","t","e"," ","t","h","e"," ","a","r","e","a"," ","o","f"," ","a"," ","c","i","r","c","l","e">>
]

\* The questions the specification expects from Example.passage.
Expected == [
  temperature |->
    <<"W","h","a","t"," ","i","s"," ","i","t","s"," ","t","e","m","p","e","r","a","t","u","r","e","?">>,
  more |->
    <<"T","e","l","l"," ","m","e"," ","m","o","r","e","?">>
]

\* Further utterances: a line break after an embedded question word, an
\* exclamation, questions that a single check of is_question accepts, and
\* questions opening with the other question words of get_question_type.
EdgeCase == [
  line_break |->
    <<"I"," ","k","n","o","w"," ","h","o","w"," ","i","t","\n","w","o","r","k","s">>,
  line_break_after_word |->
    <<"I"," ","k","n","o","w"," ","h","o","w","\n","i","t"," ","w","o","r","k","s">>,
  exclaimed |->
    <<"S","t","o","p","!"," ","W","h","y"," ","n","o","t">>,
  only_mark |->
    <<"Y","o","u"," ","a","r","e"," ","s","u","r","e","?">>,
  only_word |->
    <<"a","m"," ","I">>,
  not_in_pattern |->
    <<"H","a","v","e"," ","y","o","u">>,
  whom_first |->
    <<"W","h","o","m"," ","d","i","d"," ","y","o","u"," ","s","e","e">>,
  whose_first |->
    <<"W","h","o","s","e"," ","b","o","o","k"," ","i","s"," ","t","h","i","s">>,
  when_first |->
    <<"W","h","e","n"," ","i","s"," ","i","t">>,
  where_first |->
    <<"W","h","e","r","e"," ","i","s"," ","i","t">>,
  which_first |->
    <<"W","h","i","c","h"," ","o","n","e">>,
  why_first |->
    <<"W","h","y"," ","n","o","t">>,
  only_aux |->
    <<"s","h","o","u","l","d">>
]

EdgeCases == {EdgeCase.line_break, EdgeCase.line_break_after_word,
              EdgeCase.exclaimed, EdgeCase.only_mark, EdgeCase.only_word,
              EdgeCase.not_in_pattern, EdgeCase.whom_first,
              EdgeCase.whose_first, EdgeCase.when_first, EdgeCase.where_first,
              EdgeCase.which_first, EdgeCase.why_first, EdgeCase.only_aux}

Examples == {Example.sky, Example.time, Example.inverted, Example.works,
             Example.passage, Example.how_should, Example.photosynthesis,
             Example.wet, Example.gravity, Example.circle}

\* Fragments the bounded inputs are concatenated from: whitespace, sentence
\* delimiters, words of the rule tables in either case, and other characters.
Vocabulary == {
  <<" ">>, <<"?">>, <<".">>,
  Lit.what, Lit.is, Lit.have, Lit.am, Lit.tell_me, Lit.compute, <<"1">> }

\* Longest input over Vocabulary, in fragments.
MaxFrags == 3

\* A smaller vocabulary, for inputs of more fragments.
CoreVocabulary == {<<" ">>, <<"\n">>, <<"?">>, <<".">>, <<"H","o","w">>, <<"x">>}

\* Longest input over CoreVocabulary, in fragments.
MaxCoreFrags == 4

RECURSIVE TextsUpTo(_, _)
TextsUpTo(vocabulary, n) ==
  IF n = 0 THEN {<<>>}
  ELSE LET shorter == TextsUpTo(vocabulary, n - 1)
       IN  shorter \cup {t \o f : t \in shorter, f \in vocabulary}

Texts == TextsUpTo(Vocabulary, MaxFrags) \cup
         TextsUpTo(CoreVocabulary, MaxCoreFrags) \cup Examples \cup EdgeCases

-----------------------------------------------------------------------------
(* The detector in use: one instance, called on an utterance               *)

\* No method of QuestionDetector assigns an attribute of self: the instance
\* after a call is the instance before it.
\* Variant: is_question remembers the first word of every text it is given.
self_after_is_question_learns(self, text) ==
  IF split(text) = <<>> THEN self
  ELSE [self EXCEPT !.question_words = @ \cup {lower(split(text)[1])}]

\* Variant: is_question drops the first word of its text from question_words.
self_after_is_question_forgets(self, text) ==
  IF split(text) = <<>> THEN self
  ELSE [self EXCEPT !.question_words = @ \ {lower(split(text)[1])}]

self_after_is_question(self, text) == self

\* Variant: extract_questions moves the pattern it used last to the front.
self_after_extract_questions_reorders(self, text) ==
  [self EXCEPT !.question_patterns =
     [i \in DOMAIN @ |-> @[Len(@) + 1 - i]]]

self_after_extract_questions(self, text) == self

self_after_get_question_type(self, question) == self

\* Python's None, and a value that is a text.
None == [is_none |-> TRUE, text |-> <<>>]

Some(text) == [is_none |-> FALSE, text |-> text]

\* MainWindow.__init__: nothing asked, nothing answered, not listening, the
\* listen button not checked.
MainWindow ==
  [is_listening |-> FALSE, current_question |-> None, current_answer |-> None,
   listen_button |-> FALSE]

\* No window event and no concurrent caller yet.
Idle ==
  /\ window = MainWindow
  /\ query = None
  /\ callers = <<>>

Init ==
  /\ Idle
  /\ detector = QuestionDetector
  /\ check_order = SourceOrder
  /\ input \in Texts
  /\ utterances = 1
  /\ op = "none"
  /\ ret = Return(FALSE)

CallIsQuestion ==
  /\ ret' = is_question(detector, input)
  /\ op' = "is_question"
  /\ detector' = self_after_is_question(detector, input)
  /\ UNCHANGED <<check_order, input, utterances, app>>

CallExtractQuestions ==
  /\ ret' = extract_questions(detector, input)
  /\ op' = "extract_questions"
  /\ detector' = self_after_extract_questions(detector, input)
  /\ UNCHANGED <<check_order, input, utterances, app>>

CallGetQuestionType ==
  /\ ret' = get_question_type(detector, input)
  /\ op' = "get_question_type"
  /\ detector' = self_after_get_question_type(detector, input)
  /\ UNCHANGED <<check_order, input, utterances, app>>

Next ==
  \/ CallIsQuestion
  \/ CallExtractQuestions
  \/ CallGetQuestionType

Spec == Init /\ [][Next]_vars

-----------------------------------------------------------------------------
(* One detector over several utterances                                    *)

\* Longest utterance of a sequence, in fragments of CoreVocabulary.
MaxHistFrags == 2

\* Most utterances handed to one detector.
MaxUtterances == 3

HistTexts == TextsUpTo(CoreVocabulary, MaxHistFrags)

InitHist ==
  /\ Idle
  /\ detector = QuestionDetector
  /\ check_order = SourceOrder
  /\ input \in HistTexts
  /\ utterances = 1
  /\ op = "none"
  /\ ret = Return(FALSE)

\* The transcription source hands over the next utterance, the detector
\* having been called on the current one.
NewUtterance ==
  /\ op # "none"
  /\ utterances < MaxUtterances
  /\ input' \in HistTexts
  /\ utterances' = utterances + 1
  /\ op' = "none"
  /\ ret' = Return(FALSE)
  /\ UNCHANGED <<detector, check_order, app>>

NextHist ==
  \/ CallIsQuestion
  \/ CallExtractQuestions
  \/ CallGetQuestionType
  \/ NewUtterance

SpecHist == InitHist /\ [][NextHist]_vars

-----------------------------------------------------------------------------
(* is_question with its checks and its pattern list reordered              *)

Permutations(n) ==
  {p \in [1..n -> 1..n] : \A i, j \in 1..n : p[i] = p[j] => i = j}

Permuted(seq, p) == [i \in DOMAIN seq |-> seq[p[i]]]

Identity(n) == [i \in 1..n |-> i]

\* Longest input of the reordered detector, in fragments of CoreVocabulary.
MaxOrderFrags == 2

OrderTexts == TextsUpTo(CoreVocabulary, MaxOrderFrags)

\* Every order of the checks with every order of the pattern list on the
\* example utterances; every order of the checks, and every order of the
\* pattern list, on the bounded inputs.
InitOrder ==
  /\ \E c \in Permutations(Len(SourceOrder)) :
       \E p \in Permutations(Len(question_patterns)) :
         /\ check_order = Permuted(SourceOrder, c)
         /\ detector = NewDetector(Permuted(question_patterns, p))
         /\ \/ input \in Examples \cup EdgeCases
            \/ /\ input \in OrderTexts
               /\ c = Identity(Len(SourceOrder)) \/ p = Identity(Len(question_patterns))
  /\ Idle
  /\ utterances = 1
  /\ op = "none"
  /\ ret = Return(FALSE)

CallIsQuestionReordered ==
  /\ ret' = is_question_ordered(detector, check_order, input)
  /\ op' = "is_question_reordered"
  /\ detector' = self_after_is_question(detector, input)
  /\ UNCHANGED <<check_order, input, utterances, app>>

NextOrder == CallIsQuestionReordered

SpecOrder == InitOrder /\ [][NextOrder]_vars

\* Longest input of the reordered categories, in fragments of Vocabulary.
MaxTypeFrags == 2

TypeTexts == TextsUpTo(Vocabulary, MaxTypeFrags) \cup Examples \cup EdgeCases

\* Every order of the four groups of get_question_type on every input.
InitTypeOrder ==
  /\ Idle
  /\ detector = QuestionDetector
  /\ check_order \in Permutations(Len(SourceOrder))
  /\ input \in TypeTexts
  /\ utterances = 1
  /\ op = "none"
  /\ ret = Return(FALSE)

CallGetQuestionTypeReordered ==
  /\ ret' = get_question_type_ordered(detector, check_order, input)
  /\ op' = "get_question_type_reordered"
  /\ detector' = self_after_get_question_type(detector, input)
  /\ UNCHANGED <<check_order, input, utterances, app>>

NextTypeOrder == CallGetQuestionTypeReordered

SpecTypeOrder == InitTypeOrder /\ [][NextTypeOrder]_vars

-----------------------------------------------------------------------------
(* The window that feeds transcriptions to the detector                    *)

\* Fragments of the transcriptions the window receives.
UIVocabulary == {<<" ">>, <<"?">>, <<"H","o","w">>, <<"x">>}

\* Longest transcription, in fragments of UIVocabulary.
MaxUIFrags == 2

UITexts == TextsUpTo(UIVocabulary, MaxUIFrags)

\* Answers of the service: an empty one and a non-empty one.
Answers == {<<>>, <<"4","2">>}

\* Truth value of an attribute that is None or a string.
Truthy(v) == ~v.is_none /\ v.text # <<>>

\* Variant: the window queries for every question, listening or not.
should_answer_whenever(self, text) == is_question(detector, text)

\* self.is_listening and self.question_detector.is_question(text)
should_answer(self, text) ==
  IF ~self.is_listening THEN Return(FALSE) ELSE is_question(detector, text)

\* A click on the checkable listen button, then MainWindow.toggle_listening.
toggle_listening ==
  /\ window' = [window EXCEPT !.listen_button = ~@,
                              !.is_listening = ~window.listen_button]
  /\ query' = None
  /\ op' = "toggle_listening"
  /\ ret' = Return(FALSE)
  /\ UNCHANGED <<detector, check_order, input, utterances, callers>>

\* MainWindow.on_transcription: the text is appended to the transcription
\* area; a question heard while listening becomes the current question and
\* is passed to llm_handler.get_answer.
on_transcription(text) ==
  LET asked == should_answer(window, text)
  IN  /\ input' = text
      /\ op' = "on_transcription"
      /\ ret' = asked
      /\ IF asked = Return(TRUE)
           THEN /\ window' = [window EXCEPT !.current_question = Some(text)]
                /\ query' = Some(text)
           ELSE /\ window' = window
                /\ query' = None
      /\ detector' = IF window.is_listening
                       THEN self_after_is_question(detector, text)
                       ELSE detector
      /\ UNCHANGED <<check_order, utterances, callers>>

\* MainWindow.on_answer_ready
on_answer_ready(answer) ==
  /\ window' = [window EXCEPT !.current_answer = Some(answer)]
  /\ query' = None
  /\ op' = "on_answer_ready"
  /\ ret' = Return(FALSE)
  /\ UNCHANGED <<detector, check_order, input, utterances, callers>>

\* MainWindow.show_answer
show_answer ==
  /\ window' = IF Truthy(window.current_question) /\ Truthy(window.current_answer)
                 THEN [window EXCEPT !.current_question = None,
                                     !.current_answer = None]
                 ELSE window
  /\ query' = None
  /\ op' = "show_answer"
  /\ ret' = Return(FALSE)
  /\ UNCHANGED <<detector, check_order, input, utterances, callers>>

\* MainWindow.ignore_question
ignore_question ==
  /\ window' = [window EXCEPT !.current_question = None, !.current_answer = None]
  /\ query' = None
  /\ op' = "ignore_question"
  /\ ret' = Return(FALSE)
  /\ UNCHANGED <<detector, check_order, input, utterances, callers>>

InitUI ==
  /\ Idle
  /\ detector = QuestionDetector
  /\ check_order = SourceOrder
  /\ input = <<>>
  /\ utterances = 1
  /\ op = "none"
  /\ ret = Return(FALSE)

NextUI ==
  \/ toggle_listening
  \/ \E text \in UITexts : on_transcription(text)
  \/ \E answer \in Answers : on_answer_ready(answer)
  \/ show_answer
  \/ ignore_question

SpecUI == InitUI /\ [][NextUI]_vars

-----------------------------------------------------------------------------
(* Concurrent callers of one detector                                      *)

\* The threads that call the shared detector.
Callers == {"a", "b"}

\* The texts the concurrent calls are made on.
ConcTexts == {
  <<"H","o","w","?">>,
  <<" ","x"," ">>,
  <<"x"," ","H","o","w"," ","x">>,
  <<"a","m"," ","I">>,
  <<"x","x","."," ","H","o","w"," ","x">>,
  <<"H","o","w",".","x","?"," ","a","m"," ","I","!">> }

\* The locals of a caller that is about to make a call.
StartCall(method, text) ==
  [method |-> method, text |-> text, pc |-> "call",
   cur |-> <<>>, n |-> 0,
   sentences |-> <<>>, i |-> 0, sentence |-> <<>>, questions |-> <<>>,
   result |-> IF method = "is_question" THEN Return(FALSE) ELSE Return(<<>>),
   overlapped |-> FALSE]

\* is_question returns b to the caller c: to the thread itself, or to the
\* loop of extract_questions, which appends the sentence if b is true.
return_from_is_question(c, b) ==
  IF c.method = "is_question"
    THEN [c EXCEPT !.pc = "done", !.result = Return(b)]
    ELSE [c EXCEPT !.pc = "loop", !.i = @ + 1,
                   !.questions = IF b THEN Append(@, with_question_mark(c.sentence))
                                 ELSE @]

\* One step of caller c on the detector self as it is at that moment: the
\* entry of a method, the guard of is_question, one of its checks, or one
\* turn of the loop of extract_questions.
caller_step(self, c) ==
  CASE c.pc = "call" ->
         IF c.method = "is_question"
           THEN [c EXCEPT !.pc = "guard", !.cur = c.text]
           ELSE [c EXCEPT !.pc = "loop", !.sentences = re_split(c.text),
                          !.i = 1, !.questions = <<>>]
    [] c.pc = "guard" ->
         IF too_short(c.cur) THEN return_from_is_question(c, FALSE)
         ELSE [c EXCEPT !.pc = "check", !.cur = strip(@), !.n = 1]
    [] c.pc = "check" ->
         LET r == check(self, SourceOrder[c.n], c.cur)
         IN  IF r = "True" THEN return_from_is_question(c, TRUE)
             ELSE IF r # "pass"
               THEN [c EXCEPT !.pc = "done",
                              !.result = Raise(r, StartCall(c.method, c.text).result.value)]
             ELSE IF c.n = Len(SourceOrder) THEN return_from_is_question(c, FALSE)
             ELSE [c EXCEPT !.n = @ + 1]
    [] c.pc = "loop" ->
         IF c.i > Len(c.sentences)
           THEN [c EXCEPT !.pc = "done", !.result = Return(c.questions)]
         ELSE IF strip(c.sentences[c.i]) = <<>> THEN [c EXCEPT !.i = @ + 1]
         ELSE [c EXCEPT !.pc = "guard", !.sentence = strip(c.sentences[c.i]),
                        !.cur = strip(c.sentences[c.i])]

\* The caller is inside its call.
MidCall(c) == c.pc \notin {"call", "done"}

InitConc ==
  /\ window = MainWindow
  /\ query = None
  /\ callers \in [Callers -> {StartCall(m, t) :
                               m \in {"is_question", "extract_questions"},
                               t \in ConcTexts}]
  /\ detector = QuestionDetector
  /\ check_order = SourceOrder
  /\ input = <<>>
  /\ utterances = 1
  /\ op = "none"
  /\ ret = Return(FALSE)

\* Caller id takes its next step; nothing stops another caller from taking
\* the step after it.
CallerStep(id) ==
  /\ callers[id].pc # "done"
  /\ callers' = [callers EXCEPT ![id] =
       [caller_step(detector, @) EXCEPT !.overlapped =
          @ \/ \E other \in Callers \ {id} : MidCall(callers[other])]]
  /\ detector' = IF callers[id].pc \in {"guard", "check"}
                   THEN self_after_is_question(detector, callers[id].cur)
                   ELSE self_after_extract_questions(detector, callers[id].text)
  /\ UNCHANGED <<check_order, input, utterances, op, ret, window, query>>

NextConc == \E id \in Callers : CallerStep(id)

SpecConc == InitConc /\ [][NextConc]_vars

\* Longest input of the punctuation study, in fragments of CoreVocabulary.
MaxPunctFrags == 4

\* Texts whose sentence endings are exchanged: the quoted utterances and
\* short texts with several delimiters.
PunctTexts == TextsUpTo(CoreVocabulary, MaxPunctFrags) \cup Examples \cup EdgeCases

InitPunct ==
  /\ Idle
  /\ detector = QuestionDetector
  /\ check_order = SourceOrder
  /\ input \in PunctTexts
  /\ utterances = 1
  /\ op = "none"
  /\ ret = Return(FALSE)

NextPunct ==
  \/ CallIsQuestion
  \/ CallExtractQuestions

SpecPunct == InitPunct /\ [][NextPunct]_vars

-----------------------------------------------------------------------------
(* Properties of is_question                                               *)

\* The four conditions of is_question, stated on the trimmed text.
EndsWithQuestionMark(t) == t # <<>> /\ t[Len(t)] = "?"

MatchesPatternRule(t) ==
  \E i \in DOMAIN question_patterns :
    search(re_compile(question_patterns[i], TRUE), t)

FirstTokenIsQuestionWord(t) ==
  split(t) # <<>> /\ lower(split(t)[1]) \in question_words

InvertedStructure(t) ==
  Len(split(t)) >= 2 /\ lower(split(t)[1]) \in inverted_starters

IsQuestionReference(text) ==
  LET t == strip(text)
  IN  \/ EndsWithQuestionMark(t)
      \/ MatchesPatternRule(t)
      \/ FirstTokenIsQuestionWord(t)
      \/ InvertedStructure(t)

\* C1: for a text whose trimmed form has at least 3 characters, is_question
\* returns true exactly when the trimmed text ends with '?', matches one of
\* the five pattern rules, has a question word as first token, or has two or
\* more tokens the first of which is an auxiliary; 'The sky is blue' is not
\* a question, 'What time is it' and 'Is the sky blue' are.
C1_IsQuestionIsDisjunction ==
  op = "is_question" =>
    /\ Len(strip(input)) >= 3 => ret = Return(IsQuestionReference(input))
    /\ input = Example.sky => ret = Return(FALSE)
    /\ input = Example.time => ret = Return(TRUE)
    /\ input = Example.inverted => ret = Return(TRUE)

C1_Witness ==
  /\ op = "is_question"
  /\ input = Example.inverted
  /\ ret = Return(TRUE)

\* Number of non-whitespace characters of a text.
NonWhitespace(text) == Cardinality({i \in DOMAIN text : text[i] \notin Whitespace})

\* C2 as claimed: a text with fewer than 3 non-whitespace characters is never
\* a question, however much whitespace surrounds or separates them.
C2_FewNonWhitespaceIsFalse ==
  op = "is_question" /\ NonWhitespace(input) < 3 => ret = Return(FALSE)

\* C2 amended: a text whose trimmed form has fewer than 3 characters is never
\* a question, whatever the characters are and however much whitespace
\* surrounds them.
C2_ShortTrimmedIsFalse ==
  op = "is_question" /\ Len(strip(input)) < 3 => ret = Return(FALSE)

C2_Witness ==
  /\ op = "is_question"
  /\ strip(input) = Lit.is
  /\ Len(input) > Len(Lit.is)
  /\ ret = Return(FALSE)

\* C3 as claimed: every text that ends in '?' is a question.
C3_TrailingQuestionMarkIsTrue ==
  op = "is_question" /\ endswith(input, Lit.qmark) => ret = Return(TRUE)

\* C3 amended: every text that ends in '?' and whose trimmed form has at
\* least 3 characters is a question.
C3_LongTrailingQuestionMarkIsTrue ==
  op = "is_question" /\ endswith(input, Lit.qmark) /\ Len(strip(input)) >= 3
    => ret = Return(TRUE)

C3_Witness ==
  /\ op = "is_question"
  /\ input = <<"1", ".", "?">>
  /\ ret = Return(TRUE)

\* Input that is not meaningful text: no letter in it, or a single character.
NotMeaningful(text) ==
  \/ \A i \in DOMAIN text : text[i] \notin Letters
  \/ Len(strip(text)) = 1

\* C4 as claimed: input that is not meaningful text is classified as a
\* non-question, without an error.
C4_NoiseIsFalse ==
  op = "is_question" /\ NotMeaningful(input) => ret = Return(FALSE)

\* C4 amended: input that is not meaningful text never raises, and is a
\* non-question unless its trimmed form has at least 3 characters and ends
\* with '?', in which case it is a question.
C4_NoiseIsFalseUnlessQuestionMark ==
  op = "is_question" /\ NotMeaningful(input) =>
    ret = Return(Len(strip(input)) >= 3 /\ endswith(strip(input), Lit.qmark))

C4_Witness ==
  /\ op = "is_question"
  /\ input = <<"?", "?", "?">>
  /\ ret = Return(TRUE)

\* The labels of QuestionType.
QuestionTypes == {Lit.what, Lit.when, Lit.where, Lit.who, Lit.whom, Lit.whose,
                  Lit.which, Lit.why, Lit.how, Lit.yes_no, Lit.explanation,
                  Lit.calculation, Lit.other}

\* C5: the three methods are total over strings: every call returns a value
\* of its type and raises nothing (the first-token lookups never meet a text
\* without tokens), and get_question_type('') is 'other'.
C5_Total ==
  /\ op # "none" => ret.exc = "None"
  /\ op = "is_question" => ret.value \in BOOLEAN
  /\ op = "extract_questions" =>
       \A i \in DOMAIN ret.value : Len(ret.value[i]) > 0
  /\ op = "get_question_type" => ret.value \in QuestionTypes
  /\ op = "get_question_type" /\ input = <<>> => ret.value = Lit.other

C5_Witness ==
  /\ op = "get_question_type"
  /\ input = <<>>
  /\ ret = Return(Lit.other)

-----------------------------------------------------------------------------
(* Properties of extract_questions                                         *)

\* Positions where a maximal delimiter-free piece of t starts.
PieceStarts(t) ==
  {i \in DOMAIN t : t[i] \notin Delimiters /\ (i = 1 \/ t[i - 1] \in Delimiters)}

\* The piece of t that starts at position i.
PieceAt(t, i) ==
  LET last == CHOOSE j \in i..Len(t) :
                /\ \A k \in i..j : t[k] \notin Delimiters
                /\ j = Len(t) \/ t[j + 1] \in Delimiters
  IN  SubSeq(t, i, last)

\* The non-empty pieces of t, left to right.
Pieces(t) ==
  LET starts == PieceStarts(t)
      nth(n) == CHOOSE i \in starts : Cardinality({j \in starts : j < i}) = n - 1
  IN  [n \in 1..Cardinality(starts) |-> PieceAt(t, nth(n))]

ExtractReference(text) ==
  LET trimmed == [n \in DOMAIN Pieces(text) |-> strip(Pieces(text)[n])]
      Qualifies(p) == p # <<>> /\ is_question(QuestionDetector, p) = Return(TRUE)
      kept == SelectSeq(trimmed, Qualifies)
  IN  [n \in DOMAIN kept |->
         IF kept[n][Len(kept[n])] = "?" THEN kept[n] ELSE Append(kept[n], "?")]

\* C6: extract_questions returns the trimmed, non-empty pieces between
\* maximal runs of '.', '!', '?' that is_question accepts, each with '?'
\* appended unless it ends with one, in their order in the text; the
\* passage of the specification yields its two questions.
C6_ExtractIsReference ==
  op = "extract_questions" =>
    /\ ret = Return(ExtractReference(input))
    /\ strip(input) = <<>> => ret = Return(<<>>)
    /\ input = Example.passage =>
         ret = Return(<<Expected.temperature, Expected.more>>)

C6_Witness ==
  /\ op = "extract_questions"
  /\ input = Example.passage
  /\ ret = Return(<<Expected.temperature, Expected.more>>)

-----------------------------------------------------------------------------
(* Properties of get_question_type                                         *)

TypeReference(q) ==
  LET t == strip(lower(q))
      hits == {i \in DOMAIN q_words : startswith(t, q_words[i])}
      prefixed(ws) == \E w \in ws : startswith(t, w)
  IN  IF hits # {} THEN q_words[CHOOSE i \in hits : \A j \in hits : i <= j]
      ELSE IF split(t) # <<>> /\ split(t)[1] \in yes_no_starters THEN Lit.yes_no
      ELSE IF prefixed({Lit.tell_me, Lit.explain, Lit.describe, Lit.define})
        THEN Lit.explanation
      ELSE IF prefixed({Lit.calculate, Lit.solve, Lit.compute})
        THEN Lit.calculation
      ELSE Lit.other

\* C7: get_question_type returns, for the lowercased trimmed question, the
\* first question word it starts with, else 'yes/no' for an auxiliary first
\* token, else 'explanation' or 'calculation' for a command prefix, else
\* 'other'; 'How should I ...' is 'how'.
C7_TypeIsStagedReference ==
  op = "get_question_type" =>
    /\ ret = Return(TypeReference(input))
    /\ input = Example.how_should => ret = Return(Lit.how)

C7_Witness ==
  /\ op = "get_question_type"
  /\ input = Example.how_should
  /\ ret = Return(Lit.how)

-----------------------------------------------------------------------------
(* The embedded question word rule                                         *)

EmbeddedWords == {Lit.what, Lit.how, Lit.why, Lit.when, Lit.where}

\* Positions just after an occurrence of an embedded question word in t,
\* compared case-insensitively.
AfterEmbeddedWord(t) ==
  {j \in 1..(Len(t) + 1) :
     \E w \in EmbeddedWords :
       /\ j - Len(w) >= 1
       /\ lower(SubSeq(t, j - Len(w), j - 1)) = w}

\* The word is followed by one or more whitespace characters after which
\* the text holds no line break.
FollowedBySpaceThenLine(t, j) ==
  \E n \in 1..(Len(t) - j + 1) :
    /\ \A k \in j..(j + n - 1) : t[k] \in Whitespace
    /\ \A k \in (j + n)..Len(t) : t[k] # "\n"

\* C8 as claimed: a text of at least 3 trimmed characters that contains one
\* of what, how, why, when, where anywhere is a question.
C8_EmbeddedWordIsTrue ==
  op = "is_question" /\ Len(strip(input)) >= 3
    /\ AfterEmbeddedWord(strip(input)) # {}
    => ret = Return(TRUE)

\* C8 amended: a text of at least 3 trimmed characters that contains one of
\* those words followed by whitespace, with no line break after that
\* whitespace, is a question; 'I know how it works.' is one.
C8_EmbeddedWordThenSpaceIsTrue ==
  op = "is_question" =>
    /\ Len(strip(input)) >= 3
         /\ (\E j \in AfterEmbeddedWord(strip(input)) :
               FollowedBySpaceThenLine(strip(input), j))
         => ret = Return(TRUE)
    /\ input = Example.works => ret = Return(TRUE)

C8_Witness ==
  /\ op = "is_question"
  /\ input = Example.works
  /\ ret = Return(TRUE)

-----------------------------------------------------------------------------
(* Order and history                                                       *)

\* C9: the result of is_question does not depend on evaluation order: with
\* the four checks after the guard in any order and the five pattern rules
\* in any order, it returns what the source order returns.
C9_OrderIsImmaterial ==
  op = "is_question_reordered" => ret = is_question(QuestionDetector, input)

C9_Witness ==
  /\ op = "is_question_reordered"
  /\ check_order = <<4, 3, 2, 1>>
  /\ detector.question_patterns[1] = question_patterns[5]
  /\ input = Example.works
  /\ ret = Return(TRUE)

\* C10: whatever calls one detector has served before, a call returns what
\* the same call returns on a freshly constructed detector.
C10_HistoryIndependent ==
  /\ op = "is_question" => ret = is_question(QuestionDetector, input)
  /\ op = "extract_questions" => ret = extract_questions(QuestionDetector, input)
  /\ op = "get_question_type" => ret = get_question_type(QuestionDetector, input)

C10_Witness ==
  /\ utterances = MaxUtterances
  /\ op = "is_question"
  /\ input = <<"H", "o", "w", "?">>
  /\ ret = Return(TRUE)

-----------------------------------------------------------------------------
(* The rule tables                                                         *)

\* C11: after construction no call changes the rule tables: question_words,
\* question_patterns and compiled_patterns hold the same members in the same
\* order in every reachable state.
C11_RuleTablesUnchanged ==
  /\ detector.question_words = question_words
  /\ detector.question_patterns = question_patterns
  /\ detector.compiled_patterns =
       [i \in DOMAIN question_patterns |-> re_compile(question_patterns[i], TRUE)]

C11_Witness ==
  /\ utterances = MaxUtterances
  /\ op = "extract_questions"
  /\ input = <<"H", "o", "w", ".">>
  /\ ret = Return(<<<<"H", "o", "w", "?">>>>)
  /\ detector = QuestionDetector

-----------------------------------------------------------------------------
(* The categories get_question_type returns                                *)

ReturnedTypes ==
  {Lit.what, Lit.when, Lit.where, Lit.who, Lit.which, Lit.why, Lit.how,
   Lit.yes_no, Lit.explanation, Lit.calculation, Lit.other}

\* The categories returned for the quoted utterances and the single fragments.
TypesOfSamples ==
  {get_question_type(QuestionDetector, t).value :
     t \in Examples \cup EdgeCases \cup Vocabulary}

\* C14: get_question_type never returns 'whom' or 'whose', because 'who' is
\* tested first and is a prefix of both: a question opening with either is a
\* 'who' question.  The values returned are exactly what, when, where, who,
\* which, why, how, yes/no, explanation, calculation and other.
C14_NeverWhomOrWhose ==
  op = "get_question_type" =>
    /\ ret.exc = "None"
    /\ ret.value \notin {Lit.whom, Lit.whose}
    /\ ret.value \in ReturnedTypes
    /\ (\/ startswith(lower_strip(input), Lit.whom)
        \/ startswith(lower_strip(input), Lit.whose)) => ret.value = Lit.who
    /\ input = EdgeCase.whom_first => TypesOfSamples = ReturnedTypes

C14_Witness ==
  /\ op = "get_question_type"
  /\ input = EdgeCase.whose_first
  /\ ret = Return(Lit.who)

-----------------------------------------------------------------------------
(* The inverted-structure check                                            *)

\* The checks of is_question with the inverted-structure check removed.
WithoutInverted == <<1, 2, 3>>

\* The text is one token, an auxiliary of at least three characters.
SingleLongAuxiliary(text) ==
  /\ Len(split(text)) = 1
  /\ lower(split(text)[1]) \in inverted_starters
  /\ Len(split(text)[1]) >= 3

\* C15: the inverted-structure check never decides the result: every
\* auxiliary it tests is a question word, so the first-token check has
\* returned before it, and is_question without the check returns the same
\* for every input.  A single auxiliary of at least three characters, such
\* as 'have' or 'should', is classified as a question.
C15_InvertedCheckIsDead ==
  op = "is_question" =>
    /\ inverted_starters \subseteq detector.question_words
    /\ ret = is_question_ordered(QuestionDetector, WithoutInverted, input)
    /\ check_inverted(strip(input)) = "True" =>
         check_first_word(detector, strip(input)) = "True"
    /\ SingleLongAuxiliary(input) => ret = Return(TRUE)

C15_Witness ==
  /\ op = "is_question"
  /\ input = EdgeCase.not_in_pattern
  /\ check_inverted(strip(input)) = "True"
  /\ check_patterns(detector.compiled_patterns, 1, strip(input)) = "pass"
  /\ ret = Return(TRUE)

-----------------------------------------------------------------------------
(* The shape of the extracted questions                                    *)

\* q is a sentence body followed by one '?': the body holds none of '.', '!',
\* '?', neither starts nor ends with whitespace, and has three characters or
\* more.
WellFormedQuestion(q) ==
  /\ Len(q) >= 4
  /\ q[Len(q)] = "?"
  /\ \A k \in 1..(Len(q) - 1) : q[k] \notin {".", "!", "?"}
  /\ q[1] \notin Whitespace
  /\ q[Len(q) - 1] \notin Whitespace

\* C16: every element extract_questions returns ends with exactly one '?',
\* holds no other '.', '!' or '?', has no whitespace at its start or before
\* the '?', and has at least four characters.  No trimmed sentence ends with
\* '?', so the '?' is always appended; and the list is no longer than the
\* list of pieces the text splits into.
C16_ExtractedAreWellFormed ==
  op = "extract_questions" =>
    /\ ret.exc = "None"
    /\ \A n \in DOMAIN ret.value : WellFormedQuestion(ret.value[n])
    /\ \A n \in DOMAIN re_split(input) :
         /\ ~endswith(strip(re_split(input)[n]), Lit.qmark)
         /\ with_question_mark(strip(re_split(input)[n])) =
              strip(re_split(input)[n]) \o Lit.qmark
    /\ Len(ret.value) <= Len(re_split(input))

C16_Witness ==
  /\ op = "extract_questions"
  /\ input = EdgeCase.exclaimed
  /\ Len(re_split(input)) = 2
  /\ ret = Return(<<<<"W","h","y"," ","n","o","t","?">>>>)

-----------------------------------------------------------------------------
(* Sentence endings                                                        *)

Punctuation == {".", "!", "?"}

\* Positions where a maximal run of punctuation starts in t.
RunStarts(t) ==
  {i \in DOMAIN t : t[i] \in Punctuation /\ (i = 1 \/ t[i - 1] \notin Punctuation)}

\* The last position of the maximal run that starts at i.
RunEnd(t, i) ==
  CHOOSE j \in i..Len(t) :
    /\ \A k \in i..j : t[k] \in Punctuation
    /\ j = Len(t) \/ t[j + 1] \notin Punctuation

\* t with the maximal run starting at i replaced by run.
ReplaceRun(t, i, run) ==
  SubSeq(t, 1, i - 1) \o run \o SubSeq(t, RunEnd(t, i) + 1, Len(t))

\* The runs put in place of a run of the text.
Runs == {<<".">>, <<"!">>, <<"?">>, <<".", ".">>, <<"?", "!">>, <<"!", "?", ".">>}

\* The trimmed text without its final run of punctuation.
BeforeFinalRun(t) ==
  LET s == strip(t)
  IN  SubSeq(s, 1, Len(s) - RunBefore(s, Len(s), Punctuation))

\* One sentence that is_question accepts with its trailing '?' and rejects
\* without it.
AcceptedOnlyForItsMark(t) ==
  /\ endswith(strip(t), Lit.qmark)
  /\ \A k \in DOMAIN BeforeFinalRun(t) : BeforeFinalRun(t)[k] \notin Punctuation
  /\ is_question(QuestionDetector, t) = Return(TRUE)
  /\ is_question(QuestionDetector, BeforeFinalRun(t)) = Return(FALSE)

\* C17: extract_questions ignores which punctuation ended a sentence:
\* replacing any maximal run of '.', '!', '?' of the input by another
\* non-empty run leaves the result unchanged.  Hence a sentence that
\* is_question accepts with its trailing '?' and would reject without it is
\* not extracted: is_question is true of 'You are sure?' and
\* extract_questions returns the empty list for it.
C17_PunctuationIsIgnored ==
  op = "extract_questions" =>
    /\ \A i \in RunStarts(input) : \A run \in Runs :
         extract_questions(QuestionDetector, ReplaceRun(input, i, run)) = ret
    /\ AcceptedOnlyForItsMark(input) => ret = Return(<<>>)

C17_Witness ==
  /\ op = "extract_questions"
  /\ input = EdgeCase.only_mark
  /\ AcceptedOnlyForItsMark(input)
  /\ RunStarts(input) = {Len(input)}
  /\ ret = Return(<<>>)

-----------------------------------------------------------------------------
(* The order of the groups of get_question_type                            *)

Range(seq) == {seq[i] : i \in DOMAIN seq}

\* The groups whose condition holds of the lowercased trimmed question.
GroupsThatApply(question) ==
  {n \in DOMAIN SourceOrder : type_group(n, lower_strip(question)) # <<>>}

\* Both prefixes can open one string.
PrefixesOverlap(a, b) == startswith(a, b) \/ startswith(b, a)

\* The word a can be the first token of a string that starts with prefix.
TokenCanOpen(a, prefix) ==
  \/ startswith(a, prefix)
  \/ /\ startswith(prefix, a)
     /\ Len(prefix) > Len(a)
     /\ prefix[Len(a) + 1] \in Whitespace

\* No entry of one group's table can hold together with an entry of another.
TablesAreDisjoint ==
  /\ \A a \in yes_no_starters :
       \A p \in Range(q_words) \cup Range(explanation_cmds)
                  \cup Range(calculation_cmds) : ~TokenCanOpen(a, p)
  /\ \A w \in Range(q_words) :
       \A c \in Range(explanation_cmds) \cup Range(calculation_cmds) :
         ~PrefixesOverlap(w, c)
  /\ \A e \in Range(explanation_cmds) :
       \A c \in Range(calculation_cmds) : ~PrefixesOverlap(e, c)

\* C18: apart from the overlap of who, whom and whose, the conditions of
\* get_question_type exclude one another: no lowercased trimmed string
\* satisfies two of question-word prefix, auxiliary first token, explanation
\* prefix and calculation prefix, so the four groups evaluated in any order
\* return the category get_question_type returns.
C18_GroupsAreExclusive ==
  op = "get_question_type_reordered" =>
    /\ ret = get_question_type(QuestionDetector, input)
    /\ Cardinality(GroupsThatApply(input)) <= 1
    /\ input = <<>> => TablesAreDisjoint

C18_Witness ==
  /\ op = "get_question_type_reordered"
  /\ check_order = <<4, 3, 2, 1>>
  /\ input = Example.inverted
  /\ GroupsThatApply(input) = {2}
  /\ ret = Return(Lit.yes_no)

-----------------------------------------------------------------------------
(* The queries of the window                                               *)

\* A query was started by the last step only for the transcription just
\* received, accepted by is_question, with listening switched on.
QueryOnlyForHeardQuestion ==
  ~query.is_none =>
    /\ op = "on_transcription"
    /\ query = Some(input)
    /\ is_question(QuestionDetector, input) = Return(TRUE)
    /\ window.is_listening
    /\ window.current_question = Some(input)

\* A transcription that is not a question, or arrives while listening is
\* off, starts no query and leaves the current question as it was.
OtherTranscriptionIsDropped ==
  (/\ op' = "on_transcription"
   /\ \/ ~window.is_listening
      \/ is_question(QuestionDetector, input') # Return(TRUE))
    => /\ query' = None
       /\ window'.current_question = window.current_question

\* C13: over any sequence of listen-toggle, transcription and answer events,
\* get_answer is invoked with a text only if is_question accepted that text
\* and only while listening is on; a transcription that is not a question or
\* arrives while is_listening is false never starts a query and leaves
\* current_question unchanged.
C13_QueryOnlyWhenListeningToQuestion ==
  /\ []QueryOnlyForHeardQuestion
  /\ [][OtherTranscriptionIsDropped]_vars

C13_Witness ==
  /\ op = "on_transcription"
  /\ input = <<"H","o","w","?">>
  /\ ~window.is_listening
  /\ query = None
  /\ window.current_question = Some(<<"H","o","w">>)
  /\ window.current_answer = Some(<<"4","2">>)

-----------------------------------------------------------------------------
(* Concurrent calls                                                        *)

\* What the call of c returns when no other call runs.
ReturnsAlone(c) ==
  IF c.method = "is_question" THEN is_question(QuestionDetector, c.text)
  ELSE extract_questions(QuestionDetector, c.text)

\* C12: calls of is_question and extract_questions made concurrently on one
\* shared detector, their steps interleaved in any way and without locking,
\* each return what the same call returns alone.
C12_ConcurrentCallsReturnAsAlone ==
  \A id \in Callers :
    callers[id].pc = "done" => callers[id].result = ReturnsAlone(callers[id])

C12_Witness ==
  /\ callers["a"].pc = "done"
  /\ callers["a"].overlapped
  /\ callers["a"].method = "extract_questions"
  /\ callers["a"].text = <<"H","o","w",".","x","?"," ","a","m"," ","I","!">>
  /\ callers["a"].result = Return(<<<<"H","o","w","?">>, <<"a","m"," ","I","?">>>>)
  /\ callers["b"].pc = "done"
  /\ callers["b"].overlapped
  /\ callers["b"].method = "is_question"
  /\ callers["b"].text = <<"x"," ","H","o","w"," ","x">>
  /\ callers["b"].result = Return(TRUE)

=============================================================================
